---- MODULE Spec2Model ----
(***************************************************************************)
(* Conway's Game of Life with two boards (src/main.rs): Board, its cell    *)
(* access and generation update, and GameState with its ggez event         *)
(* handlers (update, draw, mouse button down / up, mouse motion).          *)
(***************************************************************************)
EXTENDS Integers, Naturals, Sequences, FiniteSets, TLC

\* The rows of the grid the model keeps.
MaxRows == 3

(***************************************************************************)
(* Program constants.                                                      *)
(***************************************************************************)
GRID_WIDTH == 100

\* GRID_HEIGHT is 100.  The number of rows enters the code only as the limit
\* of the test y < height and as a factor of the length of cells; the model
\* keeps the first MaxRows rows of the grid.
GRID_HEIGHT == IF MaxRows < 100 THEN MaxRows ELSE 100

GRID_CELL_SIZE == 8

\* Duration::from_secs_f32(1.0 / 60.0); the clock of the model counts in
\* units of half an update interval.
update_interval == 2

(***************************************************************************)
(* Bounds of the model.                                                    *)
(***************************************************************************)
\* The monotonic clock stops advancing at MaxTime.
MaxTime == 4

\* Board::update is applied at most MaxSteps times to a seeded board.
MaxSteps == 4

\* A seeded pattern is placed at most MaxOffset cells right of and below the
\* top left corner.
MaxOffset == 3

(***************************************************************************)
(* u32 values are kept as two 16-bit limbs, so that the cast of a negative *)
(* i32 to u32 is the two's complement wrap-around of the machine.          *)
(***************************************************************************)
Limb == 65536

\* `v as u32` for an i32 v
as_u32(v) == [hi |-> (v \div Limb) % Limb, lo |-> v % Limb]

\* a < b on u32
u32_lt(a, b) == a.hi < b.hi \/ (a.hi = b.hi /\ a.lo < b.lo)

\* v % d on u32, for a small d
u32_rem(v, d) == ((v.hi % d) * (Limb % d) + (v.lo % d)) % d

\* v + n on u32, for a small n: the wrapped sum, and whether the true sum
\* is beyond u32::MAX
u32_add(v, n) ==
    LET lo == v.lo + n
        hi == v.hi + lo \div Limb
    IN  [val |-> [hi |-> hi % Limb, lo |-> lo % Limb],
         overflow |-> hi \div Limb > 0]

\* `x as isize` for a u32 x: the cast zero-extends to the 64-bit isize,
\* kept as four limbs
as_isize(x) == [l3 |-> 0, l2 |-> 0, l1 |-> x.hi, l0 |-> x.lo]

\* v >= 0 on isize: the sign bit is the top bit of the top limb
isize_ge_0(v) == v.l3 < Limb \div 2

\* `v as usize` for a u32 v that fits the integers of the model
as_usize(v) == v.hi * Limb + v.lo

\* `(x / d as f32) as u32` for a screen coordinate x: the quotient is
\* truncated towards zero and the cast saturates, so that every negative
\* quotient becomes 0.
f32_div_as_u32(x, d) == IF x < 0 THEN as_u32(0) ELSE as_u32(x \div d)

(***************************************************************************)
(* Option<T>                                                               *)
(***************************************************************************)
None == [some |-> FALSE, val |-> 0]
Some(v) == [some |-> TRUE, val |-> v]

(***************************************************************************)
(* Utility functions                                                       *)
(***************************************************************************)
get_coordinates(i) == [x |-> i % GRID_WIDTH, y |-> i \div GRID_WIDTH]

(***************************************************************************)
(* Board                                                                   *)
(***************************************************************************)
\* struct Board { cells: Vec<u8>, width: u32, height: u32 }
Board(c, w, h) == [cells |-> c, width |-> w, height |-> h]

Board_new(width, height) ==
    Board([i \in 0..(width * height - 1) |-> 0], width, height)

\* The flat index of the cell at (x, y), or None: the place get_cell_mut
\* hands out as a mutable reference.
get_cell_mut(b, x, y) ==
    IF isize_ge_0(as_isize(x)) /\ u32_lt(x, as_u32(b.width))
       /\ isize_ge_0(as_isize(y)) /\ u32_lt(y, as_u32(b.height))
    THEN Some(as_usize(y) * b.width + as_usize(x))
    ELSE None

\* get_cell with the height as the stride of a row
get_cell_stride(b, x, y) ==
    IF isize_ge_0(as_isize(x)) /\ u32_lt(x, as_u32(b.width))
       /\ isize_ge_0(as_isize(y)) /\ u32_lt(y, as_u32(b.height))
    THEN Some(b.cells[as_usize(y) * b.height + as_usize(x)])
    ELSE None

get_cell(b, x, y) ==
    IF isize_ge_0(as_isize(x)) /\ u32_lt(x, as_u32(b.width))
       /\ isize_ge_0(as_isize(y)) /\ u32_lt(y, as_u32(b.height))
    THEN Some(b.cells[as_usize(y) * b.width + as_usize(x)])
    ELSE None

neighbor_coordinates ==
    << <<-1, -1>>, <<0, -1>>, <<1, -1>>, <<-1, 0>>,
       <<1, 0>>, <<-1, 1>>, <<0, 1>>, <<1, 1>> >>

\* The neighbour looked up by its flat index, checked against the length of
\* cells only
neighbor_flat(b, x, y, n) ==
    LET k == (y + n[2]) * b.width + (x + n[1])
    IN  IF k \in DOMAIN b.cells THEN b.cells[k] ELSE 0

\* The contribution of one neighbour to count.
neighbor(b, x, y, n) ==
    LET c == get_cell(b, as_u32(x + n[1]), as_u32(y + n[2]))
    IN  IF c.some THEN c.val ELSE 0

count_alive_neighbors(b, i) ==
    LET p == get_coordinates(i)
        N(k) == neighbor(b, p.x, p.y, neighbor_coordinates[k])
    IN  N(1) + N(2) + N(3) + N(4) + N(5) + N(6) + N(7) + N(8)

\* match (cell, alive_neighbors) { (1, 2) | (1, 3) => 1, (0, 3) => 1, _ => 0 }
next_cell(cell, alive_neighbors) ==
    IF (cell = 1 /\ alive_neighbors = 2) \/ (cell = 1 /\ alive_neighbors = 3)
    THEN 1
    ELSE IF cell = 0 /\ alive_neighbors = 3 THEN 1 ELSE 0

\* Board::update counting the neighbours in the board it writes instead of
\* the board it reads
Board_update_counts_target(self, future_board) ==
    [future_board EXCEPT !.cells =
        [i \in DOMAIN future_board.cells |->
            IF i \in DOMAIN self.cells
            THEN next_cell(self.cells[i],
                           count_alive_neighbors(future_board, i))
            ELSE future_board.cells[i]]]

\* Board::randomize: every third cell alive
Board_randomize(b) ==
    [b EXCEPT !.cells = [i \in DOMAIN b.cells |-> IF i % 3 = 0 THEN 1 ELSE 0]]

\* Board::update: the cells of future_board after self.update(future_board).
\* Every index of self.cells is written; the boards of the model have cells
\* of the same length.
Board_update(self, future_board) ==
    [future_board EXCEPT !.cells =
        [i \in DOMAIN future_board.cells |->
            IF i \in DOMAIN self.cells
            THEN next_cell(self.cells[i], count_alive_neighbors(self, i))
            ELSE future_board.cells[i]]]

\* The write `future_board.cells[i]` of Board::update is out of bounds for
\* some index of self.cells.
update_panics(self, future_board) ==
    \E i \in DOMAIN self.cells : i \notin DOMAIN future_board.cells

(***************************************************************************)
(* GameState                                                               *)
(***************************************************************************)
VARIABLES
    board_1,        \* GameState.board_1
    board_2,        \* GameState.board_2
    mouse_down,     \* GameState.mouse_down
    cycle,          \* GameState.cycle
    last_update,    \* GameState.last_update
    now,            \* the monotonic clock Instant::now() reads
    canvas,         \* the rectangles of the frame draw finished last
    seed,           \* the board the run started from
    panicked        \* the process has panicked

vars == <<board_1, board_2, mouse_down, cycle, last_update, now, canvas,
          seed, panicked>>

MouseButton == {"Left", "Right"}

\* Screen positions <<x, y>> of pointer events: inside the cells (0, 0),
\* (1, 0) and (0, 1), left of and above the window, and right of and below
\* the grid's pixel area.
Pointer ==
    { <<4, 4>>, <<12, 4>>, <<4, 12>>, <<-4, 12>>, <<12, -4>>,
      <<GRID_WIDTH * GRID_CELL_SIZE, 4>>, <<4, GRID_HEIGHT * GRID_CELL_SIZE>> }

\* GameState::new with the call `game.randomize()` it has commented out
Init_randomized ==
    /\ board_1 = Board_randomize(Board_new(GRID_WIDTH, GRID_HEIGHT))
    /\ board_2 = Board_new(GRID_WIDTH, GRID_HEIGHT)
    /\ mouse_down = FALSE
    /\ cycle = as_u32(0)
    /\ last_update = 0
    /\ now = 0
    /\ canvas = {}
    /\ seed = board_1
    /\ panicked = FALSE

\* GameState::new
Init ==
    /\ board_1 = Board_new(GRID_WIDTH, GRID_HEIGHT)
    /\ board_2 = Board_new(GRID_WIDTH, GRID_HEIGHT)
    /\ mouse_down = FALSE
    /\ cycle = as_u32(0)
    /\ last_update = 0
    /\ now = 0
    /\ canvas = {}
    /\ seed = board_1
    /\ panicked = FALSE

\* The board `match self.cycle % 2` selects in handle_mouse and, as
\* current_board, in update: 1 for board_1, 2 for board_2.
current_index(c) == IF u32_rem(c, 2) = 0 THEN 1 ELSE 2

\* handle_mouse writing to the board draw reads, whatever the cycle
handle_mouse_board_1(x, y) ==
    LET grid_x == f32_div_as_u32(x, GRID_CELL_SIZE)
        grid_y == f32_div_as_u32(y, GRID_CELL_SIZE)
        cell == get_cell_mut(board_1, grid_x, grid_y)
    IN  /\ IF cell.some
           THEN board_1' = [board_1 EXCEPT !.cells[cell.val] = 1]
           ELSE board_1' = board_1
        /\ board_2' = board_2

\* handle_mouse adding 1 to the cell instead of storing 1
handle_mouse_increment(x, y) ==
    LET grid_x == f32_div_as_u32(x, GRID_CELL_SIZE)
        grid_y == f32_div_as_u32(y, GRID_CELL_SIZE)
        cell == IF current_index(cycle) = 1
                THEN get_cell_mut(board_1, grid_x, grid_y)
                ELSE get_cell_mut(board_2, grid_x, grid_y)
    IN  /\ IF cell.some /\ current_index(cycle) = 1
           THEN board_1' = [board_1 EXCEPT !.cells[cell.val] = @ + 1]
           ELSE board_1' = board_1
        /\ IF cell.some /\ current_index(cycle) # 1
           THEN board_2' = [board_2 EXCEPT !.cells[cell.val] = @ + 1]
           ELSE board_2' = board_2

\* handle_mouse toggling the cell instead of setting it
handle_mouse_toggle(x, y) ==
    LET grid_x == f32_div_as_u32(x, GRID_CELL_SIZE)
        grid_y == f32_div_as_u32(y, GRID_CELL_SIZE)
        cell == IF current_index(cycle) = 1
                THEN get_cell_mut(board_1, grid_x, grid_y)
                ELSE get_cell_mut(board_2, grid_x, grid_y)
    IN  /\ IF cell.some /\ current_index(cycle) = 1
           THEN board_1' = [board_1 EXCEPT !.cells[cell.val] = 1 - @]
           ELSE board_1' = board_1
        /\ IF cell.some /\ current_index(cycle) # 1
           THEN board_2' = [board_2 EXCEPT !.cells[cell.val] = 1 - @]
           ELSE board_2' = board_2

\* GameState::handle_mouse
handle_mouse(x, y) ==
    LET grid_x == f32_div_as_u32(x, GRID_CELL_SIZE)
        grid_y == f32_div_as_u32(y, GRID_CELL_SIZE)
        cell == IF current_index(cycle) = 1
                THEN get_cell_mut(board_1, grid_x, grid_y)
                ELSE get_cell_mut(board_2, grid_x, grid_y)
    IN  /\ IF cell.some /\ current_index(cycle) = 1
           THEN board_1' = [board_1 EXCEPT !.cells[cell.val] = 1]
           ELSE board_1' = board_1
        /\ IF cell.some /\ current_index(cycle) # 1
           THEN board_2' = [board_2 EXCEPT !.cells[cell.val] = 1]
           ELSE board_2' = board_2

\* A generation that leaves the cycle counter alone
generation_no_swap ==
    /\ IF current_index(cycle) = 1
       THEN /\ board_2' = Board_update(board_1, board_2)
            /\ board_1' = board_1
       ELSE /\ board_1' = Board_update(board_2, board_1)
            /\ board_2' = board_2
    /\ cycle' = cycle
    /\ panicked' = panicked

\* The cycle counter advanced by 2 at a generation
increment_cycle_by_two ==
    LET sum == u32_add(cycle, 2)
    IN  IF sum.overflow
        THEN \/ panicked' = TRUE /\ cycle' = cycle
             \/ panicked' = FALSE /\ cycle' = sum.val
        ELSE panicked' = FALSE /\ cycle' = sum.val

\* `self.cycle += 1`: an overflowing sum panics where overflow checks are
\* compiled in (the dev profile) and wraps where they are not (the release
\* profile).
increment_cycle ==
    LET sum == u32_add(cycle, 1)
    IN  IF sum.overflow
        THEN \/ panicked' = TRUE /\ cycle' = cycle
             \/ panicked' = FALSE /\ cycle' = sum.val
        ELSE panicked' = FALSE /\ cycle' = sum.val

\* A generation that also stores the new cells in the board it reads
generation_in_place ==
    /\ IF current_index(cycle) = 1
       THEN /\ board_2' = Board_update(board_1, board_2)
            /\ board_1' = Board_update(board_1, board_1)
       ELSE /\ board_1' = Board_update(board_2, board_1)
            /\ board_2' = Board_update(board_2, board_2)
    /\ increment_cycle

\* One generation: current_board.update(future_board); self.cycle += 1.
\* `future_board.cells[i] = ...` panics at an index of self.cells that
\* future_board.cells does not have, after the writes before it.
generation ==
    /\ IF current_index(cycle) = 1
       THEN /\ board_2' = Board_update(board_1, board_2)
            /\ board_1' = board_1
       ELSE /\ board_1' = Board_update(board_2, board_1)
            /\ board_2' = board_2
    /\ IF (current_index(cycle) = 1 /\ update_panics(board_1, board_2))
          \/ (current_index(cycle) # 1 /\ update_panics(board_2, board_1))
       THEN panicked' = TRUE /\ cycle' = cycle
       ELSE increment_cycle

\* The body of the `if` of EventHandler::update
step ==
    /\ last_update' = now
    /\ generation

\* EventHandler::update stepping only when more than the interval has elapsed
update_late ==
    /\ ~panicked
    /\ IF now - last_update > update_interval
       THEN step
       ELSE UNCHANGED <<board_1, board_2, cycle, last_update, panicked>>
    /\ UNCHANGED <<mouse_down, now, canvas, seed>>

\* EventHandler::update
update ==
    /\ ~panicked
    /\ IF now - last_update >= update_interval
       THEN step
       ELSE UNCHANGED <<board_1, board_2, cycle, last_update, panicked>>
    /\ UNCHANGED <<mouse_down, now, canvas, seed>>

\* The rectangles draw puts on the canvas for the cells of a board.
rectangles(b) ==
    { [x |-> get_coordinates(i).x * GRID_CELL_SIZE,
       y |-> get_coordinates(i).y * GRID_CELL_SIZE,
       w |-> GRID_CELL_SIZE, h |-> GRID_CELL_SIZE] :
        i \in {j \in DOMAIN b.cells : b.cells[j] = 1} }

\* The frame draw renders: `for i in 0..self.board_1.cells.len()`
frame == rectangles(board_1)

\* EventHandler::draw
draw ==
    /\ ~panicked
    /\ canvas' = frame
    /\ UNCHANGED <<board_1, board_2, mouse_down, cycle, last_update, now,
                   seed, panicked>>

\* EventHandler::mouse_button_down_event
mouse_button_down_event(button, x, y) ==
    /\ ~panicked
    /\ IF button = "Left"
       THEN mouse_down' = TRUE /\ handle_mouse(x, y)
       ELSE UNCHANGED <<mouse_down, board_1, board_2>>
    /\ UNCHANGED <<cycle, last_update, now, canvas, seed, panicked>>

\* EventHandler::mouse_button_up_event
mouse_button_up_event(button) ==
    /\ ~panicked
    /\ mouse_down' = IF button = "Left" THEN FALSE ELSE mouse_down
    /\ UNCHANGED <<board_1, board_2, cycle, last_update, now, canvas, seed,
                   panicked>>

\* mouse_motion_event editing whether or not the button is held
mouse_motion_event_unheld(x, y) ==
    /\ ~panicked
    /\ handle_mouse(x, y)
    /\ UNCHANGED <<mouse_down, cycle, last_update, now, canvas, seed,
                   panicked>>

\* EventHandler::mouse_motion_event
mouse_motion_event(x, y) ==
    /\ ~panicked
    /\ IF mouse_down
       THEN handle_mouse(x, y)
       ELSE UNCHANGED <<board_1, board_2>>
    /\ UNCHANGED <<mouse_down, cycle, last_update, now, canvas, seed,
                   panicked>>

\* Time passes between two callbacks of the event loop.
advance_time ==
    /\ ~panicked
    /\ now < MaxTime
    /\ now' = now + 1
    /\ UNCHANGED <<board_1, board_2, mouse_down, cycle, last_update, canvas,
                   seed, panicked>>

Next ==
    \/ update
    \/ draw
    \/ \E b \in MouseButton, p \in Pointer :
           mouse_button_down_event(b, p[1], p[2])
    \/ \E b \in MouseButton : mouse_button_up_event(b)
    \/ \E p \in Pointer : mouse_motion_event(p[1], p[2])
    \/ advance_time

Spec == Init /\ [][Next]_vars

(***************************************************************************)
(* The program after 2^32 - 2 generations without a pointer event: both    *)
(* boards are still dead and the cycle counter is two steps from the end   *)
(* of u32.                                                                 *)
(***************************************************************************)
InitLate ==
    /\ board_1 = Board_new(GRID_WIDTH, GRID_HEIGHT)
    /\ board_2 = Board_new(GRID_WIDTH, GRID_HEIGHT)
    /\ mouse_down = FALSE
    /\ cycle = as_u32(-2)
    /\ last_update = 0
    /\ now = 0
    /\ canvas = {}
    /\ seed = board_1
    /\ panicked = FALSE

LateSpec == InitLate /\ [][Next]_vars

(***************************************************************************)
(* Boards of any size, seeded with a pattern and stepped with              *)
(* Board::update, the two buffers alternating as in GameState.             *)
(***************************************************************************)
\* The board of the given size whose alive cells are those at the
\* coordinates of the set alive.
seeded(width, height, alive) ==
    Board([i \in 0..(width * height - 1) |->
              IF <<i % width, i \div width>> \in alive THEN 1 ELSE 0],
          width, height)

translate(pattern, dx, dy) == { <<c[1] + dx, c[2] + dy>> : c \in pattern }

\* The standard 5-cell glider, heading towards (+1, +1)
Glider == { <<1, 0>>, <<2, 1>>, <<0, 2>>, <<1, 2>>, <<2, 2>> }

\* The 2x2 block
Block == { <<0, 0>>, <<1, 0>>, <<0, 1>>, <<1, 1>> }

\* The cells of the first and last column and, next to the corners, of the
\* first and last row of a board of the running size
Border ==
    { <<x, y>> : x \in {0, GRID_WIDTH - 1}, y \in 0..(GRID_HEIGHT - 1) }
    \cup { <<x, y>> : x \in {1, GRID_WIDTH - 2}, y \in {0, GRID_HEIGHT - 1} }

\* One alive cell anywhere on a 5x5 board; the glider on a 10x10 board, with
\* room to travel; the block anywhere on a 4x4 board, on a 6x5 board and in
\* the left columns of a board of the running size; on a board of the
\* running size any two cells of the border, two cells at each end of two
\* rows, and the whole border.
Seeds ==
    { seeded(5, 5, {<<x, y>>}) : x \in 0..4, y \in 0..4 }
    \cup { seeded(10, 10, translate(Glider, dx, dy)) :
               dx \in 0..MaxOffset, dy \in 0..MaxOffset }
    \cup { seeded(4, 4, translate(Block, dx, dy)) : dx \in 0..2, dy \in 0..2 }
    \cup { seeded(6, 5, translate(Block, dx, dy)) : dx \in 0..4, dy \in 0..3 }
    \cup { seeded(GRID_WIDTH, GRID_HEIGHT, translate(Block, dx, dy)) :
               dx \in 0..MaxOffset, dy \in 0..(GRID_HEIGHT - 2) }
    \cup { seeded(GRID_WIDTH, GRID_HEIGHT, {c, d}) : c, d \in Border }
    \cup { seeded(GRID_WIDTH, GRID_HEIGHT,
                  { <<x, y>> : x \in {0, GRID_WIDTH - 1}, y \in {dy, dy + 1} }) :
               dy \in 0..(GRID_HEIGHT - 2) }
    \cup { seeded(GRID_WIDTH, GRID_HEIGHT, Border) }

InitBoard ==
    /\ seed \in Seeds
    /\ board_1 = seed
    /\ board_2 = Board_new(seed.width, seed.height)
    /\ mouse_down = FALSE
    /\ cycle = as_u32(0)
    /\ last_update = 0
    /\ now = 0
    /\ canvas = {}
    /\ panicked = FALSE

\* One call of Board::update from the current board into the other one
board_step ==
    /\ ~panicked
    /\ u32_lt(cycle, as_u32(MaxSteps))
    /\ generation
    /\ UNCHANGED <<mouse_down, last_update, now, canvas, seed>>

NextBoard == board_step

BoardSpec == InitBoard /\ [][NextBoard]_vars

(***************************************************************************)
(* The Game of Life and the roles of the two boards, as the properties     *)
(* below state them.                                                       *)
(***************************************************************************)
\* The board the parity of the cycle counter designates as current, and the
\* other one.
Current == IF cycle.lo % 2 = 0 THEN board_1 ELSE board_2
Future == IF cycle.lo % 2 = 0 THEN board_2 ELSE board_1

\* The cell at (x, y) is on the board and alive.
alive_at(b, x, y) ==
    /\ x \in 0..(b.width - 1)
    /\ y \in 0..(b.height - 1)
    /\ b.cells[y * b.width + x] = 1

Moore(x, y) ==
    { <<x + dx, y + dy>> : dx \in -1..1, dy \in -1..1 } \ { <<x, y>> }

moore_count(b, x, y) ==
    Cardinality({ c \in Moore(x, y) : alive_at(b, c[1], c[2]) })

\* The next state of the cell at index i of board b
life_cell(b, i) ==
    LET n == moore_count(b, i % b.width, i \div b.width)
    IN  IF b.cells[i] = 1
        THEN IF n = 2 \/ n = 3 THEN 1 ELSE 0
        ELSE IF n = 3 THEN 1 ELSE 0

life(b) == [i \in DOMAIN b.cells |-> life_cell(b, i)]

\* A transition in which update performed a generation step
stepped == last_update' # last_update

\* The screen position p lies in the grid's pixel area.
in_grid(p) ==
    /\ p[1] >= 0 /\ p[1] < GRID_WIDTH * GRID_CELL_SIZE
    /\ p[2] >= 0 /\ p[2] < GRID_HEIGHT * GRID_CELL_SIZE

\* A transition in which a pointer event at p reached handle_mouse
edit(p) ==
    \/ mouse_button_down_event("Left", p[1], p[2])
    \/ mouse_down /\ mouse_motion_event(p[1], p[2])

grid_x_of(p) == p[1] \div GRID_CELL_SIZE
grid_y_of(p) == p[2] \div GRID_CELL_SIZE

rectangle_of(gx, gy) ==
    [x |-> gx * GRID_CELL_SIZE, y |-> gy * GRID_CELL_SIZE,
     w |-> GRID_CELL_SIZE, h |-> GRID_CELL_SIZE]

\* C1: a generation step writes into every cell of the future board the
\* Game-of-Life next state of that cell computed from the pre-step current
\* board: alive with 2 or 3 alive neighbours stays alive, dead with exactly
\* 3 becomes alive, every other cell is dead.
C1_UpdateWritesNextState ==
    [][stepped =>
         LET target == IF cycle.lo % 2 = 0 THEN board_2' ELSE board_1'
         IN  \A i \in DOMAIN Current.cells :
                 target.cells[i] = life_cell(Current, i)]_vars

\* A first step has given birth to the cell (1, 1) next to three alive cells.
C1_Witness ==
    /\ cycle = as_u32(1)
    /\ board_1.cells[0] = 1 /\ board_1.cells[1] = 1
    /\ board_1.cells[GRID_WIDTH] = 1 /\ board_1.cells[GRID_WIDTH + 1] = 0
    /\ board_2.cells[GRID_WIDTH + 1] = 1 /\ board_2.cells[0] = 1

\* C2: after a step the current buffer is the board the step wrote, and its
\* cells are the generation computed from the pre-step current buffer,
\* whatever the written board held before.
C2_SwapPublishesGeneration ==
    [][stepped =>
         /\ Current' = (IF cycle.lo % 2 = 0 THEN board_2' ELSE board_1')
         /\ Current'.cells = life(Current)]_vars

\* Two steps are done; board_1, current again, has lost the cell (0, 0) it
\* held when the frame on the canvas was drawn.
C2_Witness ==
    /\ cycle = as_u32(2)
    /\ board_1.cells[0] = 0
    /\ rectangle_of(0, 0) \in canvas

\* C3: the frame draw puts on the canvas is that of the current buffer.
C3_DrawReadsCurrent ==
    [][draw => canvas' = rectangles(Current)]_vars

\* C4: a pointer edit inside the grid sets its cell alive in the buffer the
\* next step reads; the cell stays alive there until a step is taken, and
\* the step computes the cell's next state from an alive cell.
C4_EditFeedsNextStep ==
    [][/\ \A p \in Pointer :
              in_grid(p) /\ edit(p) =>
                  alive_at(Current', grid_x_of(p), grid_y_of(p))
       /\ ~stepped /\ Current' # Current =>
              \A i \in DOMAIN Current.cells :
                  Current.cells[i] = 1 => Current'.cells[i] = 1
       /\ stepped =>
              \A i \in DOMAIN Current.cells :
                  Current.cells[i] = 1 =>
                      (Current'.cells[i] = 1 <=>
                          moore_count(Current, i % Current.width,
                                      i \div Current.width) \in {2, 3})]_vars

\* Three cells edited into board_2 during the odd cycle have become a block
\* in board_1.
C4_Witness ==
    /\ cycle = as_u32(2)
    /\ board_2.cells[0] = 1 /\ board_2.cells[1] = 1
    /\ board_2.cells[GRID_WIDTH] = 1 /\ board_2.cells[GRID_WIDTH + 1] = 0
    /\ board_1.cells[0] = 1 /\ board_1.cells[1] = 1
    /\ board_1.cells[GRID_WIDTH] = 1 /\ board_1.cells[GRID_WIDTH + 1] = 1

\* C5: after a pointer edit inside the grid, the frame a draw renders from
\* the state the edit leaves shows the edited cell, whatever the cycle.
C5_EditVisibleAtOnce ==
    [][\A p \in Pointer :
           in_grid(p) /\ edit(p) =>
               rectangle_of(grid_x_of(p), grid_y_of(p)) \in frame']_vars

\* C6: on a board of any width and height, count_alive_neighbors of the cell
\* at (x, y) is the number of alive cells of its Moore neighbourhood that
\* are on the board.
C6_CountIsMooreCount ==
    \A x \in 0..(Current.width - 1), y \in 0..(Current.height - 1) :
        count_alive_neighbors(Current, y * Current.width + x)
            = moore_count(Current, x, y)

\* C7: a 10x10 board seeded with the glider holds, after 4 steps, the glider
\* translated by (+1, +1) and no other alive cell.
C7_GliderPeriod ==
    \A dx \in 0..MaxOffset, dy \in 0..MaxOffset :
        seed = seeded(10, 10, translate(Glider, dx, dy)) /\ cycle = as_u32(4) =>
            Current = seeded(10, 10, translate(Glider, dx + 1, dy + 1))

\* C8: a board of any size from 4x4 on whose alive cells are a 2x2 block
\* has a current buffer equal to the seed after any number of steps.
C8_BlockIsStill ==
    (\E dx \in 0..seed.width - 2, dy \in 0..seed.height - 2 :
         seed = seeded(seed.width, seed.height, translate(Block, dx, dy)))
        => Current.cells = seed.cells

\* Signed neighbour and pointer coordinates the bounds test is probed with:
\* around 0, around the limit, and values whose low limb alone is in range.
probe(limit) ==
    (-2..2) \cup ((limit - 2)..(limit + 1))
            \cup {-Limb, -Limb + 1, Limb, Limb + 1, 2147483647, -2147483647}

\* C9: get_cell is None for a coordinate that is negative before the cast or
\* not below the width or height, and otherwise Some of the value held at
\* the flat index y * width + x; a pointer edit writes the 1 that get_cell
\* then returns.
C9_GetCell ==
    /\ [](\A b \in {board_1, board_2} :
              \A sx \in probe(b.width), sy \in probe(b.height) :
                  get_cell(b, as_u32(sx), as_u32(sy))
                      = IF sx >= 0 /\ sx < b.width /\ sy >= 0 /\ sy < b.height
                        THEN Some(b.cells[sy * b.width + sx])
                        ELSE None)
    /\ [][\A p \in Pointer :
              in_grid(p) /\ edit(p) =>
                  get_cell(Current', as_u32(grid_x_of(p)),
                           as_u32(grid_y_of(p))) = Some(1)]_vars

\* The cell (0, 1) has been written and is read back; its left neighbour is
\* off the board.
C9_Witness ==
    /\ board_1.cells[GRID_WIDTH] = 1
    /\ get_cell(board_1, as_u32(0), as_u32(1)) = Some(1)
    /\ get_cell(board_1, as_u32(-1), as_u32(1)) = None

\* C10: a pointer event at a screen position outside the grid's pixel area
\* leaves every cell of both boards unchanged.
C10_OutsideIsNoOp ==
    [][\A p \in Pointer :
           ~in_grid(p) /\ edit(p) =>
               board_1' = board_1 /\ board_2' = board_2]_vars

\* A tick changes a board, the cycle counter or the time of the last step.
tick_effect ==
    \/ board_1' # board_1
    \/ board_2' # board_2
    \/ cycle' # cycle
    \/ last_update' # last_update

\* C11: a tick performs a generation step if and only if the time elapsed
\* since the last accepted step (or construction) is at least the update
\* interval: no tick at such a time leaves the time of the last step as it
\* was, and the step counts one cycle and restarts the interval; a tick
\* before that, the instant of the last step included, changes neither
\* board, nor the cycle counter, nor the time of the last step.
C11_StepIffIntervalElapsed ==
    /\ [](now - last_update >= update_interval =>
              ~ENABLED (last_update' = last_update /\ update))
    /\ [](now - last_update < update_interval =>
              ~ENABLED (update /\ tick_effect))
    /\ [][stepped =>
              /\ now - last_update >= update_interval
              /\ last_update' = now
              /\ cycle' = u32_add(cycle, 1).val]_vars

\* The second step was accepted exactly one interval after the first; a tick
\* at this instant does not step.
C11_Witness ==
    /\ cycle = as_u32(2)
    /\ last_update = 2 * update_interval
    /\ now = last_update

\* C12: the cycle counter never decreases: a tick that steps increases it by
\* exactly 1 and no other event changes it.
C12_CycleNeverDecreases ==
    [][/\ ~u32_lt(cycle', cycle)
       /\ stepped => ~u32_add(cycle, 1).overflow
                     /\ cycle' = u32_add(cycle, 1).val
       /\ ~stepped => cycle' = cycle]_vars

\* C13: Board::update leaves the board it reads unmodified: after a step the
\* board that was current before the step has the cells, the width and the
\* height it had before the step.
C13_SourceUnmodified ==
    [][stepped =>
         LET source == IF cycle.lo % 2 = 0 THEN board_1 ELSE board_2
             after == IF cycle.lo % 2 = 0 THEN board_1' ELSE board_2'
         IN  /\ \A i \in DOMAIN source.cells : after.cells[i] = source.cells[i]
             /\ DOMAIN after.cells = DOMAIN source.cells
             /\ after.width = source.width
             /\ after.height = source.height]_vars

\* The first step has read board_1: the lone cell (0, 0) is still alive
\* there and dead in the generation the step wrote to board_2.
C13_Witness ==
    /\ cycle = as_u32(1)
    /\ last_update > 0
    /\ board_1.cells[0] = 1
    /\ board_2.cells[0] = 0
    /\ \A i \in DOMAIN board_1.cells : i # 0 => board_1.cells[i] = 0

\* A board as Board::new builds it and update and handle_mouse keep it
well_formed(b) ==
    /\ DOMAIN b.cells = 0..(b.width * b.height - 1)
    /\ b.width = seed.width
    /\ b.height = seed.height
    /\ \A i \in DOMAIN b.cells : b.cells[i] \in {0, 1}

\* C14: in every reachable state both boards have width * height cells, the
\* width and the height they were constructed with, the same for both, and
\* every cell is 0 or 1.
C14_BoardsWellFormed ==
    /\ seed.width = GRID_WIDTH /\ seed.height = GRID_HEIGHT
    /\ well_formed(board_1)
    /\ well_formed(board_2)
    /\ board_1.width = board_2.width /\ board_1.height = board_2.height

\* Ticks, pointer edits on both boards and a draw have happened.
C14_Witness ==
    /\ cycle = as_u32(2)
    /\ canvas # {}
    /\ board_1.cells[1] = 1
    /\ board_2.cells[GRID_WIDTH] = 1

\* Every cell get_cell and get_cell_mut can return for in-range coordinates
\* of board b is an index of b.cells.
indices_in_range(b) ==
    \A x \in 0..(b.width - 1), y \in 0..(b.height - 1) :
        y * b.width + x \in DOMAIN b.cells

\* C15: no sequence of ticks, pointer events and draws reaches a panic:
\* every index update, get_cell, get_cell_mut and draw use is within the
\* cell array and no arithmetic operation fails.
C15_NoPanic ==
    /\ ~panicked
    /\ ~update_panics(board_1, board_2)
    /\ ~update_panics(board_2, board_1)
    /\ indices_in_range(board_1)
    /\ indices_in_range(board_2)

all_dead(b) == \A i \in DOMAIN b.cells : b.cells[i] = 0

\* A transition that is a callback of a pointer event
pointer_event ==
    \/ \E b \in MouseButton, p \in Pointer :
           mouse_button_down_event(b, p[1], p[2])
    \/ \E b \in MouseButton : mouse_button_up_event(b)
    \/ \E p \in Pointer : mouse_motion_event(p[1], p[2])

C17_CurrentAlternates ==
    /\ current_index(cycle) = 1
    /\ [][/\ current_index(cycle) \in {1, 2}
          /\ stepped /\ ~panicked' =>
                 current_index(cycle') = 3 - current_index(cycle)
          /\ ~stepped => current_index(cycle') = current_index(cycle)]_vars

\* Two steps, an edit and a draw later board_1 is current again.
C17_Witness ==
    /\ cycle = as_u32(2)
    /\ current_index(cycle) = 1
    /\ mouse_down
    /\ canvas # {}

\* The indices of column c and of row r of board b
column(b, c) == { y * b.width + c : y \in 0..(b.height - 1) }
row(b, r) == { r * b.width + x : x \in 0..(b.width - 1) }

\* Board b with the cells at the indices of dead set to 0
without(b, dead) ==
    [b EXCEPT !.cells = [i \in DOMAIN b.cells |->
                            IF i \in dead THEN 0 ELSE b.cells[i]]]

\* C18: on a board of the running size the grid does not wrap: the count of
\* a cell of column 0 does not depend on the cells of column width-1, nor
\* that of a cell of column width-1 on column 0, nor those of row 0 and row
\* height-1 on each other, and the count of a border cell is the number of
\* its alive Moore neighbours on the board.
C18_NoWrap ==
    Current.width = GRID_WIDTH /\ Current.height = GRID_HEIGHT =>
        LET b == Current
            last_column == column(b, b.width - 1)
            last_row == row(b, b.height - 1)
            no_last_column == without(b, last_column)
            no_first_column == without(b, column(b, 0))
            no_last_row == without(b, last_row)
            no_first_row == without(b, row(b, 0))
        IN  /\ \A i \in column(b, 0) :
                   count_alive_neighbors(b, i)
                       = count_alive_neighbors(no_last_column, i)
            /\ \A i \in last_column :
                   count_alive_neighbors(b, i)
                       = count_alive_neighbors(no_first_column, i)
            /\ \A i \in row(b, 0) :
                   count_alive_neighbors(b, i)
                       = count_alive_neighbors(no_last_row, i)
            /\ \A i \in last_row :
                   count_alive_neighbors(b, i)
                       = count_alive_neighbors(no_first_row, i)
            /\ \A i \in column(b, 0) \cup last_column \cup row(b, 0)
                          \cup last_row :
                   count_alive_neighbors(b, i)
                       = moore_count(b, i % b.width, i \div b.width)

\* Two cells at each end of rows 0 and 1, a block on a torus, have died in
\* the first step.
C18_Witness ==
    /\ cycle = as_u32(1)
    /\ seed.width = GRID_WIDTH
    /\ seed.cells[0] = 1 /\ seed.cells[GRID_WIDTH - 1] = 1
    /\ seed.cells[GRID_WIDTH] = 1 /\ seed.cells[2 * GRID_WIDTH - 1] = 1
    /\ all_dead(Current)

\* A transition that is a button-down or a button-up event of the left
\* button, of another button, or a pointer move
left_down == \E p \in Pointer : mouse_button_down_event("Left", p[1], p[2])
left_up == mouse_button_up_event("Left")
other_button ==
    \E b \in MouseButton \ {"Left"} :
        \/ \E p \in Pointer : mouse_button_down_event(b, p[1], p[2])
        \/ mouse_button_up_event(b)
moved == \E p \in Pointer : mouse_motion_event(p[1], p[2])

\* C19: the held flag is false at the start, every left-button-down sets it,
\* every left-button-up clears it and nothing else changes it, so that it
\* is true exactly when a left-button-down has occurred with no
\* left-button-up after it; a pointer move changes a cell only while the
\* flag is true, and the events of other buttons change neither the flag
\* nor a cell.
C19_MoveEditsOnlyWhileHeld ==
    /\ ~mouse_down
    /\ [][/\ left_down => mouse_down'
          /\ left_up => ~mouse_down'
          /\ ~mouse_down /\ mouse_down' => left_down
          /\ mouse_down /\ ~mouse_down' => left_up
          /\ moved /\ (board_1' # board_1 \/ board_2' # board_2) =>
                 mouse_down
          /\ other_button =>
                 UNCHANGED <<mouse_down, board_1, board_2>>]_vars

\* With the left button held, the cells (0, 0) and (1, 0) have been set
\* before the first step.
C19_Witness ==
    /\ mouse_down
    /\ cycle = as_u32(0)
    /\ board_1.cells[0] = 1
    /\ board_1.cells[1] = 1

\* C20: a pointer edit changes at most one cell, from dead to alive, of the
\* current buffer, and leaves the other board, the cycle counter and the
\* time of the last step as they were.
C20_EditSetsOneCell ==
    [][(\E p \in Pointer : edit(p)) =>
          /\ (IF current_index(cycle) = 1
               THEN board_2' = board_2 ELSE board_1' = board_1)
          /\ cycle' = cycle
          /\ last_update' = last_update
          /\ LET before == IF current_index(cycle) = 1
                           THEN board_1 ELSE board_2
                 after == IF current_index(cycle) = 1
                          THEN board_1' ELSE board_2'
                 changed == { i \in DOMAIN before.cells :
                                 after.cells[i] # before.cells[i] }
             IN  /\ after.width = before.width
                 /\ after.height = before.height
                 /\ DOMAIN after.cells = DOMAIN before.cells
                 /\ after # before =>
                        /\ Cardinality(changed) = 1
                        /\ \A i \in changed :
                               before.cells[i] = 0 /\ after.cells[i] = 1]_vars

\* After the first step an edit has set the cell (0, 0) of board_2, the
\* current buffer, and nothing else.
C20_Witness ==
    /\ cycle = as_u32(1)
    /\ mouse_down
    /\ all_dead(board_1)
    /\ board_2.cells[0] = 1
    /\ all_dead(without(board_2, {0}))
====
